---- MODULE Spec2Model ----
(***************************************************************************)
(* Model of the ingestion flow of Rearc-Data-Quest:                        *)
(*   - BLSSync (part1/bls_s3_sync.py): reconciles the objects of an S3     *)
(*     bucket under a key prefix with the files of a remote directory      *)
(*     listing, using MD5 digests against the objects' ETags;              *)
(*   - DataUSASync.run (part2/datausa_sync.py): fetches two JSON documents *)
(*     and stores each under a fixed key;                                  *)
(*   - handler (ingest_handler.py): runs the two in sequence and turns any *)
(*     exception into a statusCode 500 answer.                             *)
(*                                                                         *)
(* Strings (keys, URLs, ETags) are sequences of one-character strings, so  *)
(* that str.replace, str.split and str.strip are computed as Python        *)
(* computes them.  Every network call of the code is one step.             *)
(*                                                                         *)
(* Environment assumptions: the bucket answers a listing in ascending key  *)
(* order with ETag = '"' + md5(body) + '"' (single-part, unencrypted       *)
(* objects), deleting an absent key succeeds, and the remote server        *)
(* serves a file's bytes unencoded.                                        *)
(***************************************************************************)
EXTENDS Integers, Sequences, FiniteSets, TLC

(***************************************************************************)
(* Bounds of the model.                                                    *)
(***************************************************************************)
\* longest remote listing
MaxRemote == 2
\* most objects in the bucket before the first invocation
MaxStored == 2
\* number of handler invocations (the schedule triggers them one after another)
MaxInvocations == 2
\* most network calls that fail in one behaviour
MaxFaults == 2

(***************************************************************************)
(* Strings.                                                                *)
(***************************************************************************)
\* code points of the characters the model uses
Ord(c) ==
    CASE c = "\"" -> 34
      [] c = "/" -> 47
      [] c = "a" -> 97
      [] c = "d" -> 100
      [] c = "h" -> 104
      [] c = "p" -> 112
      [] c = "r" -> 114
      [] c = "c" -> 99
      [] c = "u" -> 117
      [] c = "x" -> 120
      [] c = "y" -> 121
      [] c = "z" -> 122
      [] OTHER -> 0

\* s.startswith(pre)
StartsWith(s, pre) ==
    /\ Len(s) >= Len(pre)
    /\ SubSeq(s, 1, Len(pre)) = pre

\* byte-wise s < t, the order in which S3 lists keys
RECURSIVE LexLess(_, _)
LexLess(s, t) ==
    IF t = <<>> THEN FALSE
    ELSE IF s = <<>> THEN TRUE
    ELSE IF Ord(Head(s)) # Ord(Head(t)) THEN Ord(Head(s)) < Ord(Head(t))
    ELSE LexLess(Tail(s), Tail(t))

\* the strings of S in ascending order
RECURSIVE SortedSeq(_)
SortedSeq(S) ==
    IF S = {} THEN <<>>
    ELSE LET m == CHOOSE x \in S : \A y \in S \ {x} : LexLess(x, y)
         IN  <<m>> \o SortedSeq(S \ {m})

\* s.replace(old, ""): every non-overlapping occurrence of old, scanning from the left
RECURSIVE ReplaceAll(_, _)
ReplaceAll(s, old) ==
    IF old = <<>> \/ s = <<>> THEN s
    ELSE IF StartsWith(s, old) THEN ReplaceAll(SubSeq(s, Len(old) + 1, Len(s)), old)
    ELSE <<Head(s)>> \o ReplaceAll(Tail(s), old)

\* s.strip(ch)
RECURSIVE Strip(_, _)
Strip(s, ch) ==
    IF s = <<>> THEN s
    ELSE IF Head(s) = ch THEN Strip(Tail(s), ch)
    ELSE IF s[Len(s)] = ch THEN Strip(SubSeq(s, 1, Len(s) - 1), ch)
    ELSE s

\* s.split("/")[-1]
RECURSIVE LastSegment(_)
LastSegment(s) ==
    IF s = <<>> THEN <<>>
    ELSE IF s[Len(s)] = "/" THEN <<>>
    ELSE LastSegment(SubSeq(s, 1, Len(s) - 1)) \o <<s[Len(s)]>>


(***************************************************************************)
(* Configuration and the abstract values.                                  *)
(***************************************************************************)
\* BLSSync.SOURCE_URL, a directory URL ending in "/"
SOURCE_URL == <<"u", "/">>
\* BLSSync.S3_PREFIX as the entry points configure it ("bls/pr/")
S3_PREFIX == <<"p", "/">>
\* DataUSASync.s3_prefix: the configured prefix with its trailing "/" normalised
DATAUSA_PREFIX == Strip(<<"d">>, "/") \o <<"/">>
\* the two fixed document names, response.json and comments.json
RESPONSE_JSON == <<"r">>
COMMENTS_JSON == <<"c">>

\* the file names the remote directory can link to (no "/" in them)
FileNames == {<<"a">>, <<"z">>}
\* the bytes a remote file or a stored object can hold
Contents == {"x", "y"}
\* urljoin(SOURCE_URL, href) for a relative href
UrlJoin(base, href) == base \o href
Urls == {UrlJoin(SOURCE_URL, n) : n \in FileNames}
\* a link into a subdirectory (href "d/a"): another URL whose last segment is "a"
SubdirUrl == UrlJoin(SOURCE_URL, <<"d", "/", "a">>)
AllUrls == Urls \cup {SubdirUrl}

\* hashlib.md5 over the streamed chunks: one digest per content
MD5(c) == <<"h", c>>
\* the ETag S3 reports for an object: its MD5 in double quotes
ETag(c) == <<"\"">> \o MD5(c) \o <<"\"">>

\* the keys the bucket can hold before the first invocation: a file directly
\* under the prefix, a key that repeats the prefix, and a key outside it
StoreKeys ==
    {S3_PREFIX \o n : n \in FileNames}
        \cup {S3_PREFIX \o S3_PREFIX \o <<"a">>}
        \cup {<<"x", "/", "a">>}

\* sequences over S of length at most n
SeqsUpTo(S, n) == UNION {[1..k -> S] : k \in 0..n}

Procs == 1..MaxInvocations

VARIABLES
    store,              \* the bucket: key -> body
    remote_files,       \* the URLs the remote directory page links to, in page order
    remote_content,     \* URL -> bytes served
    pc,                 \* position of each invocation
    bls_urls,           \* sync(): the listing it works on
    s3_files,           \* sync(): file_map, a dict in insertion order, <<name, etag>>
    current_filenames,  \* sync(): names seen in the listing
    i,                  \* sync(): index of the current url in bls_urls
    file_hash,          \* sync(): digest of the current file
    r_upload,           \* sync(): bytes of the response fetched for the upload
    j,                  \* sync(): index of the current entry of s3_files in the delete loop
    population_data,    \* run(): result of fetch_data
    comments_data,      \* run(): result of fetch_comments
    retries,            \* session.get: retries the Retry object of the request still allows
    statusCode,         \* handler: 0 while running, then 200 or 500
    exc,                \* handler: the call whose exception it caught, "" if none
    calls,              \* history: the network calls made, in order
    store_before,       \* history: the bucket as each invocation found it
    faults,             \* failures the environment may still inject
    scheduled,          \* invocations the schedule makes
    entry               \* the entry point that runs the flow: "handler" or "main"

vars == <<store, remote_files, remote_content, pc, bls_urls, s3_files,
          current_filenames, i, file_hash, r_upload, j, population_data,
          comments_data, retries, statusCode, exc, calls, store_before, faults, scheduled,
          entry>>

syncLocals == <<bls_urls, s3_files, current_filenames, i, file_hash, r_upload, j>>
runLocals == <<population_data, comments_data, retries>>
answer == <<statusCode, exc>>
remote == <<remote_files, remote_content, store_before, scheduled, entry>>

(***************************************************************************)
(* Helpers of BLSSync.                                                     *)
(***************************************************************************)
\* dict assignment d[k] = v on an insertion-ordered dict
DictSet(d, k, v) ==
    IF \E n \in 1..Len(d) : d[n][1] = k
    THEN [n \in 1..Len(d) |-> IF d[n][1] = k THEN <<k, v>> ELSE d[n]]
    ELSE Append(d, <<k, v>>)

DictKeys(d) == {d[n][1] : n \in 1..Len(d)}
DictGet(d, k) == d[CHOOSE n \in 1..Len(d) : d[n][1] = k][2]

\* the name get_s3_file_map derives from a key
StripPrefix(key) == ReplaceAll(key, S3_PREFIX)

\* get_s3_file_map: the objects under the prefix, in listing order
RECURSIVE FileMapOf(_, _, _)
FileMapOf(keys, st, acc) ==
    IF keys = <<>> THEN acc
    ELSE FileMapOf(Tail(keys), st,
                   DictSet(acc, StripPrefix(Head(keys)),
                           Strip(ETag(st[Head(keys)]), "\"")))

get_s3_file_map(st) ==
    FileMapOf(SortedSeq({k \in DOMAIN st : StartsWith(k, S3_PREFIX)}), st, <<>>)

\* a variant of the test of line 140 that uploads new names only
NeedsUpload_OnlyNew(files, filename, hash) ==
    filename \notin DictKeys(files)

\* sync() line 140: upload if new or changed
NeedsUpload(files, filename, hash) ==
    filename \notin DictKeys(files) \/ DictGet(files, filename) # hash

\* sync() line 158: first entry of file_map at or after n that is not in the listing
RECURSIVE NextStale(_, _, _)
NextStale(files, seen, n) ==
    IF n > Len(files) THEN n
    ELSE IF files[n][1] \notin seen THEN n
    ELSE NextStale(files, seen, n + 1)

\* lines 147, 160 with the key built from the file name alone
S3Key_NoPrefix(name) == name

\* the key sync() writes and deletes for a name
S3Key(name) == S3_PREFIX \o name

Put(st, key, b) == [k \in DOMAIN st \cup {key} |-> IF k = key THEN b ELSE st[k]]
Remove(st, key) == [k \in DOMAIN st \ {key} |-> st[k]]

Call(p, op, arg, ok, val) == [inv |-> p, op |-> op, arg |-> arg, ok |-> ok, val |-> val]

(***************************************************************************)
(* Helpers of DataUSASync.                                                 *)
(***************************************************************************)
\* what response.json() can give: an empty JSON object or a non-empty one
DocValues == {"empty", "data"}
\* Python truth value of a fetched document (None and {} are false)
Truthy(d) == d \notin {"None", "empty"}
\* json.dumps(data), the body that is stored
JsonDumps(d) == IF d = "empty" THEN "{}" ELSE "{data}"
\* upload_to_s3 line 114
DocKey(file_name) == DATAUSA_PREFIX \o file_name

\* Retry(total=3): the retries one session.get allows after its first request
RETRY_TOTAL == 3
\* Retry(status_forcelist=[502, 503, 504])
STATUS_FORCELIST == {"502", "503", "504"}
\* what a request that does not answer 200 can meet: a status of the
\* forcelist, a 429 that carries a Retry-After header, another error status,
\* a connection error or timeout
FailedResponses == {"503", "429", "404", "err"}

\* urllib3 Retry as configured: a retry is due after a status of the
\* forcelist, after a connection or read error of a GET, and after a
\* 413/429/503 with Retry-After (respect_retry_after_header is left on)
IsRetry(r) == r \in STATUS_FORCELIST \/ r = "err" \/ r = "429"

\* a variant of the retry test that never runs out of retries
WillRetry_Unbounded(r, left) == IsRetry(r)

\* Retry.increment: the request is made again while a retry is left
WillRetry(r, left) == IsRetry(r) /\ left > 0

(***************************************************************************)
(* Initial states: any bucket of at most MaxStored objects, any listing of *)
(* at most MaxRemote links, any content behind the links.                  *)
(***************************************************************************)
Range(f) == {f[n] : n \in DOMAIN f}

\* the buckets the first invocation can find; what an object outside the
\* prefix holds plays no part in sync(), so it holds "x"
InitStores ==
    {st \in UNION {[S -> Contents] :
                      S \in {T \in SUBSET StoreKeys : Cardinality(T) <= MaxStored}} :
        \A k \in DOMAIN st : ~StartsWith(k, S3_PREFIX) => st[k] = "x"}

InitRemote ==
    /\ remote_files \in SeqsUpTo(Urls, MaxRemote)
    /\ remote_content \in [Urls -> Contents]
    /\ \A u \in Urls \ Range(remote_files) : remote_content[u] = "x"

\* the locals of sync() and run() and the handler's answer before they are set
InitFields ==
    /\ bls_urls = [p \in Procs |-> <<>>]
    /\ s3_files = [p \in Procs |-> <<>>]
    /\ current_filenames = [p \in Procs |-> {}]
    /\ i = [p \in Procs |-> 1]
    /\ file_hash = [p \in Procs |-> <<>>]
    /\ r_upload = [p \in Procs |-> "x"]
    /\ j = [p \in Procs |-> 1]
    /\ population_data = [p \in Procs |-> "None"]
    /\ comments_data = [p \in Procs |-> "None"]
    /\ retries = [p \in Procs |-> RETRY_TOTAL]
    /\ statusCode = [p \in Procs |-> 0]
    /\ exc = [p \in Procs |-> ""]

InitLocals ==
    /\ pc = [p \in Procs |-> "idle"]
    /\ InitFields

InitWorld ==
    /\ store \in InitStores
    /\ InitRemote
    /\ InitLocals
    /\ calls = <<>>
    /\ store_before = [p \in Procs |-> store]
    /\ faults = MaxFaults

\* a name occurs twice in the listing
HasDuplicateName(urls) ==
    \E m, n \in 1..Len(urls) : m < n /\ LastSegment(urls[m]) = LastSegment(urls[n])

\* a page that links twice to one file name, directly or through a subdirectory
InitRemoteDup ==
    /\ remote_files \in {L \in SeqsUpTo(AllUrls, MaxRemote) : HasDuplicateName(L)}
    /\ remote_content \in [AllUrls -> Contents]
    /\ \A u \in AllUrls \ Range(remote_files) : remote_content[u] = "x"

\* one invocation of the handler against such a page
InitDup ==
    /\ store \in InitStores
    /\ InitRemoteDup
    /\ InitLocals
    /\ calls = <<>>
    /\ store_before = [p \in Procs |-> store]
    /\ faults = MaxFaults
    /\ scheduled = 1
    /\ entry = "handler"

\* one invocation of the handler
Init ==
    /\ InitWorld
    /\ scheduled = 1
    /\ entry = "handler"

\* main.py lines 31-37: the same flow run once as a script
InitMain ==
    /\ InitWorld
    /\ scheduled = 1
    /\ entry = "main"

\* the daily schedule: one invocation after the other
InitTwice ==
    /\ InitWorld
    /\ scheduled = MaxInvocations
    /\ entry = "handler"

(***************************************************************************)
(* handler, lines 36-56: the try block and its except branch.              *)
(***************************************************************************)
\* a flow whose except clause swallows the exception of sync() and goes on
\* to run()
Raise_RunAnyway(p, what) ==
    /\ pc' = [pc EXCEPT ![p] = "fetch_data"]
    /\ statusCode' = statusCode
    /\ exc' = [exc EXCEPT ![p] = what]

\* an exception leaves sync() or run(): the handler's except clause (lines
\* 51-56) answers 500; main() has no try, the exception leaves it and nothing
\* after the raising call runs
Raise(p, what) ==
    /\ pc' = [pc EXCEPT ![p] = IF entry = "handler" THEN "returned" ELSE "raised"]
    /\ statusCode' = IF entry = "handler" THEN [statusCode EXCEPT ![p] = 500] ELSE statusCode
    /\ exc' = [exc EXCEPT ![p] = what]

\* handler lines 46-49: both steps returned, the handler answers 200; main()
\* returns None
Return200(p) ==
    /\ pc' = [pc EXCEPT ![p] = "returned"]
    /\ statusCode' = IF entry = "handler" THEN [statusCode EXCEPT ![p] = 200] ELSE statusCode
    /\ exc' = exc

\* the environment makes one more network call fail
Fault ==
    /\ faults > 0
    /\ faults' = faults - 1

\* the schedule invokes the handler once the previous invocation has returned
Invoke(p) ==
    /\ pc[p] = "idle"
    /\ p <= scheduled
    /\ \A q \in Procs : q < p => pc[q] = "returned"
    /\ pc' = [pc EXCEPT ![p] = "list_bls"]
    /\ store_before' = [store_before EXCEPT ![p] = store]
    /\ UNCHANGED <<store, remote_files, remote_content, syncLocals, runLocals,
                   answer, calls, faults, scheduled, entry>>

\* an invocation that does not wait for the earlier ones: nothing in the
\* code or the deployment keeps two runs on one prefix apart
InvokeOverlapping(p) ==
    /\ pc[p] = "idle"
    /\ p <= scheduled
    /\ \A q \in Procs : q < p => pc[q] # "idle"
    /\ pc' = [pc EXCEPT ![p] = "list_bls"]
    /\ store_before' = [store_before EXCEPT ![p] = store]
    /\ UNCHANGED <<store, remote_files, remote_content, syncLocals, runLocals,
                   answer, calls, faults, scheduled, entry>>

(***************************************************************************)
(* BLSSync.sync, lines 120-162.                                            *)
(***************************************************************************)
\* line 121: get_bls_file_list returns the links of the page
ListBlsOk(p) ==
    /\ pc[p] = "list_bls"
    /\ bls_urls' = [bls_urls EXCEPT ![p] = remote_files]
    /\ pc' = [pc EXCEPT ![p] = "list_s3"]
    /\ UNCHANGED <<store, remote, s3_files, current_filenames, i, file_hash, r_upload,
                   j, runLocals, answer, calls, faults>>

\* lines 50-51: the page request fails or raise_for_status raises
ListBlsFail(p) ==
    /\ pc[p] = "list_bls"
    /\ Fault
    /\ calls' = Append(calls, Call(p, "list_bls", SOURCE_URL, FALSE, <<>>))
    /\ Raise(p, "list_bls")
    /\ UNCHANGED <<store, remote, syncLocals, runLocals>>

\* lines 157-162: the delete loop stands at entry n of the store listing, or
\* is exhausted: sync() returns and the handler goes on to DataUSASync.run()
DeleteLoop(p, files, seen, n) ==
    LET stale == NextStale(files, seen, n) IN
        /\ j' = [j EXCEPT ![p] = stale]
        /\ pc' = [pc EXCEPT ![p] = IF stale <= Len(files) THEN "delete" ELSE "fetch_data"]

\* a variant of the for loop that leaves for the delete loop one url early
ForLoop_EarlyDelete(p, files, seen, n) ==
    /\ i' = [i EXCEPT ![p] = n]
    /\ IF n < Len(bls_urls[p])
       THEN pc' = [pc EXCEPT ![p] = "loop"] /\ j' = j
       ELSE DeleteLoop(p, files, seen, 1)

\* line 125: the for loop stands at url n, or is exhausted and the delete
\* loop begins
ForLoop(p, files, seen, n) ==
    /\ i' = [i EXCEPT ![p] = n]
    /\ IF n <= Len(bls_urls[p])
       THEN pc' = [pc EXCEPT ![p] = "loop"] /\ j' = j
       ELSE DeleteLoop(p, files, seen, 1)

\* lines 122-123: get_s3_file_map, then current_filenames = set()
ListS3Ok(p) ==
    /\ pc[p] = "list_s3"
    /\ s3_files' = [s3_files EXCEPT ![p] = get_s3_file_map(store)]
    /\ current_filenames' = [current_filenames EXCEPT ![p] = {}]
    /\ ForLoop(p, get_s3_file_map(store), {}, 1)
    /\ UNCHANGED <<store, remote, bls_urls, file_hash, r_upload, runLocals,
                   answer, calls, faults>>

\* a variant of the failing store listing that is swallowed: sync() goes on
\* with an empty file_map
ListS3Fail_Swallowed(p) ==
    /\ pc[p] = "list_s3"
    /\ Fault
    /\ calls' = Append(calls, Call(p, "list_s3", S3_PREFIX, FALSE, <<>>))
    /\ s3_files' = [s3_files EXCEPT ![p] = <<>>]
    /\ current_filenames' = [current_filenames EXCEPT ![p] = {}]
    /\ ForLoop(p, <<>>, {}, 1)
    /\ UNCHANGED <<store, remote, bls_urls, file_hash, r_upload, runLocals, answer>>

\* line 80: the paginator raises
ListS3Fail(p) ==
    /\ pc[p] = "list_s3"
    /\ Fault
    /\ calls' = Append(calls, Call(p, "list_s3", S3_PREFIX, FALSE, <<>>))
    /\ Raise(p, "list_s3")
    /\ UNCHANGED <<store, remote, syncLocals, runLocals>>

url(p) == bls_urls[p][i[p]]
filename(p) == LastSegment(url(p))

\* lines 126-134 and 140: the hash fetch succeeds; decide upload or skip
HashOk(p) ==
    /\ pc[p] = "loop"
    /\ i[p] <= Len(bls_urls[p])
    /\ current_filenames' = [current_filenames EXCEPT ![p] = @ \cup {filename(p)}]
    /\ LET h == MD5(remote_content[url(p)]) IN
         /\ file_hash' = [file_hash EXCEPT ![p] = h]
         /\ IF NeedsUpload(s3_files[p], filename(p), h)
            THEN /\ pc' = [pc EXCEPT ![p] = "download"]
                 /\ UNCHANGED <<i, j>>
                 /\ calls' = Append(calls, Call(p, "get_hash", url(p), TRUE, h))
            ELSE /\ ForLoop(p, s3_files[p], current_filenames[p] \cup {filename(p)},
                            i[p] + 1)
                 /\ calls' = calls \o <<Call(p, "get_hash", url(p), TRUE, h),
                                        Call(p, "skip", url(p), TRUE, h)>>
    /\ UNCHANGED <<store, remote, bls_urls, s3_files, r_upload, runLocals,
                   answer, faults>>

\* lines 127, 135-137 with the name recorded only after a hash fetch that worked
HashFail_NotSeen(p) ==
    /\ pc[p] = "loop"
    /\ i[p] <= Len(bls_urls[p])
    /\ Fault
    /\ current_filenames' = current_filenames
    /\ calls' = Append(calls, Call(p, "get_hash", url(p), FALSE, <<>>))
    /\ ForLoop(p, s3_files[p], current_filenames[p], i[p] + 1)
    /\ UNCHANGED <<store, remote, bls_urls, s3_files, file_hash, r_upload,
                   runLocals, answer>>

\* lines 135-137: the hash fetch fails; log and continue with the next url
HashFail(p) ==
    /\ pc[p] = "loop"
    /\ i[p] <= Len(bls_urls[p])
    /\ Fault
    /\ current_filenames' = [current_filenames EXCEPT ![p] = @ \cup {filename(p)}]
    /\ calls' = Append(calls, Call(p, "get_hash", url(p), FALSE, <<>>))
    /\ ForLoop(p, s3_files[p], current_filenames[p] \cup {filename(p)}, i[p] + 1)
    /\ UNCHANGED <<store, remote, bls_urls, s3_files, file_hash, r_upload,
                   runLocals, answer>>

\* lines 143-145: the second fetch, for the upload, succeeds
DownloadOk(p) ==
    /\ pc[p] = "download"
    /\ r_upload' = [r_upload EXCEPT ![p] = remote_content[url(p)]]
    /\ pc' = [pc EXCEPT ![p] = "put"]
    /\ calls' = Append(calls, Call(p, "get_upload", url(p), TRUE,
                                   <<remote_content[url(p)]>>))
    /\ UNCHANGED <<store, remote, bls_urls, s3_files, current_filenames, i, file_hash,
                   j, runLocals, answer, faults>>

\* lines 151-152: the second fetch fails; log, next url
DownloadFail(p) ==
    /\ pc[p] = "download"
    /\ Fault
    /\ calls' = Append(calls, Call(p, "get_upload", url(p), FALSE, <<>>))
    /\ ForLoop(p, s3_files[p], current_filenames[p], i[p] + 1)
    /\ UNCHANGED <<store, remote, bls_urls, s3_files, current_filenames, file_hash,
                   r_upload, runLocals, answer>>

\* lines 147-150: upload_fileobj stores the fetched bytes under prefix + filename
PutOk(p) ==
    /\ pc[p] = "put"
    /\ store' = Put(store, S3Key(filename(p)), r_upload[p])
    /\ calls' = Append(calls, Call(p, "put", S3Key(filename(p)), TRUE, <<r_upload[p]>>))
    /\ ForLoop(p, s3_files[p], current_filenames[p], i[p] + 1)
    /\ UNCHANGED <<remote, bls_urls, s3_files, current_filenames, file_hash, r_upload,
                   runLocals, answer, faults>>

\* lines 151-152: upload_fileobj raises; log, next url
PutFail(p) ==
    /\ pc[p] = "put"
    /\ Fault
    /\ calls' = Append(calls, Call(p, "put", S3Key(filename(p)), FALSE, <<r_upload[p]>>))
    /\ ForLoop(p, s3_files[p], current_filenames[p], i[p] + 1)
    /\ UNCHANGED <<store, remote, bls_urls, s3_files, current_filenames, file_hash,
                   r_upload, runLocals, answer>>

old_file(p) == s3_files[p][j[p]][1]

\* lines 157-160: delete_object for a name that is not in the listing
DeleteOk(p) ==
    /\ pc[p] = "delete"
    /\ j[p] <= Len(s3_files[p])
    /\ store' = Remove(store, S3Key(old_file(p)))
    /\ calls' = Append(calls, Call(p, "delete", S3Key(old_file(p)), TRUE, <<>>))
    /\ DeleteLoop(p, s3_files[p], current_filenames[p], j[p] + 1)
    /\ UNCHANGED <<remote, bls_urls, s3_files, current_filenames, i, file_hash,
                   r_upload, runLocals, answer, faults>>

\* line 160 raises: nothing in sync() catches it, it leaves sync()
DeleteFail(p) ==
    /\ pc[p] = "delete"
    /\ j[p] <= Len(s3_files[p])
    /\ Fault
    /\ calls' = Append(calls, Call(p, "delete", S3Key(old_file(p)), FALSE, <<>>))
    /\ Raise(p, "delete")
    /\ UNCHANGED <<store, remote, syncLocals, runLocals>>

(***************************************************************************)
(* DataUSASync.run, lines 141-157, with fetch_data, fetch_comments and     *)
(* upload_to_s3.                                                           *)
(***************************************************************************)
\* lines 71-74: the population request succeeds and response.json() is returned
FetchDataOk(p) ==
    /\ pc[p] = "fetch_data"
    /\ \E d \in DocValues :
         /\ population_data' = [population_data EXCEPT ![p] = d]
         /\ pc' = [pc EXCEPT ![p] = IF Truthy(d) THEN "upload_data" ELSE "fetch_comments"]
    /\ UNCHANGED <<store, remote, syncLocals, comments_data, retries, answer, calls,
                   faults>>

\* lines 75-77: RequestException, fetch_data returns None
FetchDataFail(p) ==
    /\ pc[p] = "fetch_data"
    /\ Fault
    /\ population_data' = [population_data EXCEPT ![p] = "None"]
    /\ calls' = Append(calls, Call(p, "doc_get", RESPONSE_JSON, FALSE, <<>>))
    /\ pc' = [pc EXCEPT ![p] = "fetch_comments"]
    /\ UNCHANGED <<store, remote, syncLocals, comments_data, retries, answer>>

\* lines 114-123 for response.json
UploadDataOk(p) ==
    /\ pc[p] = "upload_data"
    /\ store' = Put(store, DocKey(RESPONSE_JSON), JsonDumps(population_data[p]))
    /\ calls' = Append(calls, Call(p, "doc_put", DocKey(RESPONSE_JSON), TRUE,
                                   <<JsonDumps(population_data[p])>>))
    /\ pc' = [pc EXCEPT ![p] = "fetch_comments"]
    /\ UNCHANGED <<remote, syncLocals, runLocals, answer, faults>>

\* lines 124-126: put_object raises and upload_to_s3 re-raises
UploadDataFail(p) ==
    /\ pc[p] = "upload_data"
    /\ Fault
    /\ calls' = Append(calls, Call(p, "doc_put", DocKey(RESPONSE_JSON), FALSE, <<>>))
    /\ Raise(p, "doc_put")
    /\ UNCHANGED <<store, remote, syncLocals, runLocals>>

\* lines 94-97
FetchCommentsOk(p) ==
    /\ pc[p] = "fetch_comments"
    /\ \E d \in DocValues :
         /\ comments_data' = [comments_data EXCEPT ![p] = d]
         /\ IF Truthy(d)
            THEN pc' = [pc EXCEPT ![p] = "upload_comments"] /\ UNCHANGED answer
            ELSE Return200(p)
    /\ UNCHANGED <<store, remote, syncLocals, population_data, retries, calls, faults>>

\* lines 98-100
FetchCommentsFail(p) ==
    /\ pc[p] = "fetch_comments"
    /\ Fault
    /\ comments_data' = [comments_data EXCEPT ![p] = "None"]
    /\ calls' = Append(calls, Call(p, "doc_get", COMMENTS_JSON, FALSE, <<>>))
    /\ Return200(p)
    /\ UNCHANGED <<store, remote, syncLocals, population_data, retries>>

\* lines 114-123 for comments.json
UploadCommentsOk(p) ==
    /\ pc[p] = "upload_comments"
    /\ store' = Put(store, DocKey(COMMENTS_JSON), JsonDumps(comments_data[p]))
    /\ calls' = Append(calls, Call(p, "doc_put", DocKey(COMMENTS_JSON), TRUE,
                                   <<JsonDumps(comments_data[p])>>))
    /\ Return200(p)
    /\ UNCHANGED <<remote, syncLocals, runLocals, faults>>

\* lines 124-126 for comments.json
UploadCommentsFail(p) ==
    /\ pc[p] = "upload_comments"
    /\ Fault
    /\ calls' = Append(calls, Call(p, "doc_put", DocKey(COMMENTS_JSON), FALSE, <<>>))
    /\ Raise(p, "doc_put")
    /\ UNCHANGED <<store, remote, syncLocals, runLocals>>

(***************************************************************************)
(* session.get seen request by request (datausa_sync.py lines 46-54, 71    *)
(* and 94): the adapter repeats a GET as the Retry object directs, and the *)
(* call returns a response or raises a RequestException.                   *)
(***************************************************************************)
\* lines 71-74: a request is answered 200; fetch_data returns response.json()
RequestDataOk(p) ==
    /\ pc[p] = "fetch_data"
    /\ \E d \in DocValues :
         /\ population_data' = [population_data EXCEPT ![p] = d]
         /\ calls' = Append(calls, Call(p, "doc_get", RESPONSE_JSON, TRUE, <<d>>))
         /\ pc' = [pc EXCEPT ![p] = IF Truthy(d) THEN "upload_data" ELSE "fetch_comments"]
    /\ retries' = [retries EXCEPT ![p] = RETRY_TOTAL]
    /\ UNCHANGED <<store, remote, syncLocals, comments_data, answer, faults>>

\* line 71: a request fails and the adapter makes it again
RequestDataRetry(p) ==
    /\ pc[p] = "fetch_data"
    /\ Fault
    /\ \E r \in FailedResponses :
         /\ WillRetry(r, retries[p])
         /\ calls' = Append(calls, Call(p, "doc_get", RESPONSE_JSON, FALSE, <<r>>))
    /\ retries' = [retries EXCEPT ![p] = @ - 1]
    /\ UNCHANGED <<store, remote, syncLocals, population_data, comments_data, pc, answer>>

\* a variant of fetch_data without its except clause: the exception leaves
\* run() and reaches the handler
RequestDataGiveUp_Raises(p) ==
    /\ pc[p] = "fetch_data"
    /\ Fault
    /\ \E r \in FailedResponses :
         /\ ~WillRetry(r, retries[p])
         /\ calls' = Append(calls, Call(p, "doc_get", RESPONSE_JSON, FALSE, <<r>>))
    /\ Raise(p, "doc_get")
    /\ UNCHANGED <<store, remote, syncLocals, runLocals>>

\* lines 71-72 and 75-77: a request fails and no retry is due; session.get or
\* raise_for_status raises a RequestException and fetch_data returns None
RequestDataGiveUp(p) ==
    /\ pc[p] = "fetch_data"
    /\ Fault
    /\ \E r \in FailedResponses :
         /\ ~WillRetry(r, retries[p])
         /\ calls' = Append(calls, Call(p, "doc_get", RESPONSE_JSON, FALSE, <<r>>))
    /\ population_data' = [population_data EXCEPT ![p] = "None"]
    /\ retries' = [retries EXCEPT ![p] = RETRY_TOTAL]
    /\ pc' = [pc EXCEPT ![p] = "fetch_comments"]
    /\ UNCHANGED <<store, remote, syncLocals, comments_data, answer>>

\* lines 94-97
RequestCommentsOk(p) ==
    /\ pc[p] = "fetch_comments"
    /\ \E d \in DocValues :
         /\ comments_data' = [comments_data EXCEPT ![p] = d]
         /\ calls' = Append(calls, Call(p, "doc_get", COMMENTS_JSON, TRUE, <<d>>))
         /\ IF Truthy(d)
            THEN pc' = [pc EXCEPT ![p] = "upload_comments"] /\ UNCHANGED answer
            ELSE Return200(p)
    /\ retries' = [retries EXCEPT ![p] = RETRY_TOTAL]
    /\ UNCHANGED <<store, remote, syncLocals, population_data, faults>>

\* line 94: a request fails and the adapter makes it again
RequestCommentsRetry(p) ==
    /\ pc[p] = "fetch_comments"
    /\ Fault
    /\ \E r \in FailedResponses :
         /\ WillRetry(r, retries[p])
         /\ calls' = Append(calls, Call(p, "doc_get", COMMENTS_JSON, FALSE, <<r>>))
    /\ retries' = [retries EXCEPT ![p] = @ - 1]
    /\ UNCHANGED <<store, remote, syncLocals, population_data, comments_data, pc, answer>>

\* lines 94-95 and 98-100
RequestCommentsGiveUp(p) ==
    /\ pc[p] = "fetch_comments"
    /\ Fault
    /\ \E r \in FailedResponses :
         /\ ~WillRetry(r, retries[p])
         /\ calls' = Append(calls, Call(p, "doc_get", COMMENTS_JSON, FALSE, <<r>>))
    /\ comments_data' = [comments_data EXCEPT ![p] = "None"]
    /\ retries' = [retries EXCEPT ![p] = RETRY_TOTAL]
    /\ Return200(p)
    /\ UNCHANGED <<store, remote, syncLocals, population_data>>

\* failures the environment may inject while run() is followed request by
\* request: enough to exhaust the retries of one fetch and fail once more
RunFaults == RETRY_TOTAL + 2

\* run() starts: the handler is back from a sync() that found an empty
\* listing and nothing under its prefix
InitRun ==
    /\ store \in {st \in InitStores : \A k \in DOMAIN st : ~StartsWith(k, S3_PREFIX)}
    /\ remote_files = <<>>
    /\ remote_content = [u \in Urls |-> "x"]
    /\ pc = [p \in Procs |-> IF p = 1 THEN "fetch_data" ELSE "idle"]
    /\ InitFields
    /\ calls = <<>>
    /\ store_before = [p \in Procs |-> store]
    /\ faults = RunFaults
    /\ scheduled = 1
    /\ entry = "handler"

NextRun ==
    \E p \in Procs :
        \/ RequestDataOk(p)
        \/ RequestDataRetry(p)
        \/ RequestDataGiveUp(p)
        \/ UploadDataOk(p)
        \/ UploadDataFail(p)
        \/ RequestCommentsOk(p)
        \/ RequestCommentsRetry(p)
        \/ RequestCommentsGiveUp(p)
        \/ UploadCommentsOk(p)
        \/ UploadCommentsFail(p)

(***************************************************************************)
(* The remote site, which publishes new versions of its files on its own.  *)
(***************************************************************************)
\* the bytes behind a link of the page change
ContentChanges(u) ==
    /\ u \in Range(remote_files)
    /\ \E c \in Contents \ {remote_content[u]} :
         remote_content' = [remote_content EXCEPT ![u] = c]
    /\ UNCHANGED <<store, remote_files, store_before, scheduled, entry, pc, syncLocals,
                   runLocals, answer, calls, faults>>

(***************************************************************************)
(* The specification.                                                      *)
(***************************************************************************)
Next ==
    \E p \in Procs :
        \/ Invoke(p)
        \/ ListBlsOk(p)
        \/ ListBlsFail(p)
        \/ ListS3Ok(p)
        \/ ListS3Fail(p)
        \/ HashOk(p)
        \/ HashFail(p)
        \/ DownloadOk(p)
        \/ DownloadFail(p)
        \/ PutOk(p)
        \/ PutFail(p)
        \/ DeleteOk(p)
        \/ DeleteFail(p)
        \/ FetchDataOk(p)
        \/ FetchDataFail(p)
        \/ UploadDataOk(p)
        \/ UploadDataFail(p)
        \/ FetchCommentsOk(p)
        \/ FetchCommentsFail(p)
        \/ UploadCommentsOk(p)
        \/ UploadCommentsFail(p)

Spec == Init /\ [][Next]_vars

SpecTwice == InitTwice /\ [][Next]_vars

\* main(): the flow run once as a script
SpecMain == InitMain /\ [][Next]_vars

\* the steps of sync() alone, for runs that overlap while no call fails: an
\* invocation stays where sync() has returned
NextOverlap ==
    \E p \in Procs :
        \/ InvokeOverlapping(p)
        \/ ListBlsOk(p)
        \/ ListS3Ok(p)
        \/ HashOk(p)
        \/ DownloadOk(p)
        \/ PutOk(p)
        \/ DeleteOk(p)

\* runs of sync() on one prefix that interleave at their network calls, in
\* an environment in which every call succeeds
SpecOverlap == InitTwice /\ [][NextOverlap]_vars

\* one invocation while the remote files change under it
NextDrift ==
    \/ Next
    \/ \E u \in Urls : ContentChanges(u)

SpecDrift == Init /\ [][NextDrift]_vars

\* one invocation against a listing with a repeated name
SpecDup == InitDup /\ [][Next]_vars

\* DataUSASync.run() of one invocation, request by request
SpecRun == InitRun /\ [][NextRun]_vars

(***************************************************************************)
(* Reading the history.                                                    *)
(***************************************************************************)
\* the calls of invocation p, in order
CallsOf(p) == SelectSeq(calls, LAMBDA c : c.inv = p)

\* the kinds of call that failed in invocation p
FailedOps(p) == {calls[k].op : k \in {n \in 1..Len(calls) : calls[n].inv = p /\ ~calls[n].ok}}

\* the calls sync() makes
SyncOps == {"list_bls", "list_s3", "get_hash", "get_upload", "put", "delete"}
\* the per-item calls of sync()
ItemOps == {"get_hash", "get_upload", "put", "delete"}

\* invocation p is inside DataUSASync.run()
InRun(p) ==
    pc[p] \in {"fetch_data", "upload_data", "fetch_comments", "upload_comments"}

\* sync() of invocation p raised to the handler
SyncRaised(p) ==
    /\ pc[p] = "returned"
    /\ exc[p] \in SyncOps

\* sync() of invocation p returned normally
SyncReturned(p) == InRun(p) \/ (pc[p] = "returned" /\ ~SyncRaised(p))

\* sync() of invocation p has just returned: the bucket is as it left it
SyncJustReturned(p) == pc[p] = "fetch_data"

\* the names of the objects under the prefix: the key without its leading prefix
StoredNames(st) ==
    {SubSeq(k, Len(S3_PREFIX) + 1, Len(k)) : k \in {x \in DOMAIN st : StartsWith(x, S3_PREFIX)}}

\* the names of a remote listing
RemoteNames(urls) == {LastSegment(urls[n]) : n \in 1..Len(urls)}

\* the store calls of invocation p on keys of sync()
Puts(p) == {n \in 1..Len(calls) : calls[n].inv = p /\ calls[n].op = "put"}
Deletes(p) == {n \in 1..Len(calls) : calls[n].inv = p /\ calls[n].op = "delete"}

(***************************************************************************)
(* C1 (convergence): when sync() has returned and none of its fetches,     *)
(* puts and deletes failed, the names stored under the prefix are exactly  *)
(* the names of the remote listing.                                        *)
(***************************************************************************)
C1_Convergence ==
    \A p \in Procs :
        (SyncJustReturned(p) /\ FailedOps(p) \cap ItemOps = {})
            => StoredNames(store) = RemoteNames(remote_files)

(***************************************************************************)
(* C2 (idempotence): when sync() runs twice in a row against the same      *)
(* remote listing and content and nothing fails in either run, the second  *)
(* run issues no put and no delete.                                        *)
(***************************************************************************)
C2_Idempotence ==
    \A p \in Procs \ {1} :
        ( /\ SyncReturned(p)
          /\ SyncReturned(p - 1)
          /\ FailedOps(p - 1) = {}
          /\ FailedOps(p) = {} )
            => Puts(p) \cup Deletes(p) = {}

\* the run of sync() in invocation p is over
SyncEnded(p) == SyncReturned(p) \/ SyncRaised(p)

\* both listings of invocation p succeeded
Listed(p) == pc[p] \notin {"idle", "list_bls", "list_s3"} /\ exc[p] \notin {"list_bls", "list_s3"}

\* number of delete calls invocation p issued for a key
DeleteCount(p, key) == Cardinality({n \in Deletes(p) : calls[n].arg = key})

\* the names of the store listing of invocation p that the remote listing lacks
StaleNames(p) == DictKeys(s3_files[p]) \ RemoteNames(bls_urls[p])

\* every url of the listing has had its hash fetch
AllItemsProcessed(p) ==
    \A n \in 1..Len(bls_urls[p]) :
        Cardinality({k \in 1..Len(calls) :
                        /\ calls[k].inv = p
                        /\ calls[k].op = "get_hash"
                        /\ calls[k].arg = bls_urls[p][n]}) >= 1

(***************************************************************************)
(* C3 (change detection): for a remote item whose hash fetch succeeded,    *)
(* the upload is attempted exactly when the name is absent from the store  *)
(* listing or the listed digest differs from the computed one; the put is  *)
(* then issued unless the upload's own fetch fails, and when the digests   *)
(* match the item is skipped: no second fetch and no put.                  *)
(***************************************************************************)
C3_ChangeDetection ==
    \A p \in Procs :
        LET L == CallsOf(p)
            files == s3_files[p]
            Changed(c) ==
                \/ LastSegment(c.arg) \notin DictKeys(files)
                \/ DictGet(files, LastSegment(c.arg)) # c.val
        IN  \A k \in 1..Len(L) :
                /\ (L[k].op = "get_hash" /\ L[k].ok) =>
                      IF Changed(L[k])
                      THEN \/ k = Len(L) /\ pc[p] = "download"
                           \/ k < Len(L) /\ L[k + 1].op = "get_upload" /\ L[k + 1].arg = L[k].arg
                      ELSE k < Len(L) /\ L[k + 1].op = "skip"
                /\ (L[k].op = "get_upload" /\ L[k].ok) =>
                      \/ k = Len(L) /\ pc[p] = "put"
                      \/ k < Len(L) /\ L[k + 1].op = "put"
                /\ L[k].op \in {"get_upload", "put"} =>
                      /\ k > 1
                      /\ L[k - 1].op = (IF L[k].op = "put" THEN "get_upload" ELSE "get_hash")
                      /\ L[k - 1].ok
                /\ L[k].op = "put" =>
                      /\ k > 2
                      /\ Changed(L[k - 2])
                      /\ L[k].arg = S3_PREFIX \o LastSegment(L[k - 2].arg)

\* an invocation has re-uploaded a changed file and skipped an unchanged one
C3_Witness ==
    \E p \in Procs :
        LET L == CallsOf(p) IN
            /\ \E k \in 1..Len(L) :
                   /\ L[k].op = "put"
                   /\ L[k].ok
                   /\ SubSeq(L[k].arg, Len(S3_PREFIX) + 1, Len(L[k].arg)) \in DictKeys(s3_files[p])
            /\ \E k \in 1..Len(L) : L[k].op = "skip"

(***************************************************************************)
(* C4 (deletion safety): in a run of sync() that got both listings, every  *)
(* name of the store listing that the remote listing lacks receives        *)
(* exactly one delete, and no name of the remote listing receives one.     *)
(***************************************************************************)
C4_DeletionSafety ==
    \A p \in Procs :
        (SyncEnded(p) /\ Listed(p)) =>
            \A name \in DictKeys(s3_files[p]) :
                DeleteCount(p, S3Key(name)) = (IF name \in StaleNames(p) THEN 1 ELSE 0)

(***************************************************************************)
(* C5 (fetch failure tolerated): when the hash fetch of an item failed,    *)
(* sync() still processes every other item, runs the delete phase and      *)
(* returns without raising.                                                *)
(***************************************************************************)
C5_FetchFailureTolerated ==
    \A p \in Procs :
        (pc[p] = "returned" /\ "get_hash" \in FailedOps(p)) =>
            /\ AllItemsProcessed(p)
            /\ \A name \in StaleNames(p) : DeleteCount(p, S3Key(name)) = 1
            /\ ~SyncRaised(p)

(***************************************************************************)
(* C6 (listing failure is fatal): when the remote listing or the store     *)
(* listing fails, sync() raises to its caller (the handler answers 500)    *)
(* having issued no put and no delete: the bucket is as the invocation     *)
(* found it.                                                               *)
(***************************************************************************)
C6_ListingFailureFatal ==
    \A p \in Procs :
        (FailedOps(p) \cap {"list_bls", "list_s3"} # {}) =>
            /\ SyncRaised(p)
            /\ statusCode[p] = 500
            /\ Puts(p) \cup Deletes(p) = {}
            /\ store = store_before[p]

\* the store listing failed with files to upload and objects to delete at hand
C6_Witness ==
    \E p \in Procs :
        /\ "list_s3" \in FailedOps(p)
        /\ bls_urls[p] # <<>>
        /\ StoredNames(store_before[p]) # {}
        /\ pc[p] = "returned"

(***************************************************************************)
(* C7 (delete failure non-fatal): when the delete of a stale name failed,  *)
(* the deletes of the remaining stale names are still attempted and sync() *)
(* returns without raising.                                                *)
(***************************************************************************)
C7_DeleteFailureNonFatal ==
    \A p \in Procs :
        (pc[p] = "returned" /\ "delete" \in FailedOps(p)) =>
            /\ \A name \in StaleNames(p) : DeleteCount(p, S3Key(name)) = 1
            /\ ~SyncRaised(p)

(***************************************************************************)
(* C8 (put failure non-fatal): when an upload failed (its fetch or its     *)
(* put), the failed calls have left the bucket as it was, and sync() has   *)
(* gone on to process every item, has run the delete phase and has         *)
(* returned without raising.                                               *)
(***************************************************************************)
UploadFailedIn(p) == FailedOps(p) \cap {"get_upload", "put"} # {}

\* the bucket st after the calls of L that succeeded
RECURSIVE Replay(_, _)
Replay(st, L) ==
    IF L = <<>> THEN st
    ELSE LET c == Head(L)
             next == IF c.ok /\ c.op \in {"put", "doc_put"} THEN Put(st, c.arg, c.val[1])
                     ELSE IF c.ok /\ c.op = "delete" THEN Remove(st, c.arg)
                     ELSE st
         IN  Replay(next, Tail(L))

C8_PutFailureNonFatal ==
    \A p \in Procs :
        (pc[p] = "returned" /\ UploadFailedIn(p)) =>
            /\ store = Replay(store_before[p], CallsOf(p))
            /\ AllItemsProcessed(p)
            /\ \A name \in StaleNames(p) : DeleteCount(p, S3Key(name)) = 1
            /\ ~SyncRaised(p)

(***************************************************************************)
(* C9 (only listing failures fail the run): the handler answers 500 when a *)
(* listing failed, and 200 when the only calls that failed were per-item   *)
(* ones: an item fetch, an item put, a stale-name delete, a document fetch.*)
(***************************************************************************)
C9_OnlyListingFailuresFatal ==
    \A p \in Procs :
        pc[p] = "returned" =>
            /\ (FailedOps(p) \cap {"list_bls", "list_s3"} # {}) => statusCode[p] = 500
            /\ (FailedOps(p) \subseteq {"get_hash", "get_upload", "put", "delete", "doc_get"})
                  => statusCode[p] = 200

(***************************************************************************)
(* C10 (empty listing wipes the prefix): when the remote listing is empty  *)
(* and nothing fails, sync() has deleted every object the bucket held      *)
(* under the prefix and has issued no put.                                 *)
(***************************************************************************)
C10_EmptyListingWipesPrefix ==
    \A p \in Procs :
        (SyncJustReturned(p) /\ bls_urls[p] = <<>> /\ FailedOps(p) = {}) =>
            /\ \A key \in DOMAIN store_before[p] :
                   StartsWith(key, S3_PREFIX) =>
                       /\ DeleteCount(p, key) = 1
                       /\ key \notin DOMAIN store
            /\ Puts(p) = {}

(***************************************************************************)
(* Reading the history of run().                                           *)
(***************************************************************************)
Docs == {RESPONSE_JSON, COMMENTS_JSON}

\* the requests invocation p made for a document, in order
DocGets(p, doc) ==
    SelectSeq(calls, LAMBDA c : c.inv = p /\ c.op = "doc_get" /\ c.arg = doc)

\* the puts of a document by invocation p that succeeded
DocPutsOk(p, doc) ==
    {n \in 1..Len(calls) :
        /\ calls[n].inv = p
        /\ calls[n].op = "doc_put"
        /\ calls[n].arg = DocKey(doc)
        /\ calls[n].ok}

\* a put of the document by invocation p failed
DocPutFailed(p, doc) ==
    \E n \in 1..Len(calls) :
        /\ calls[n].inv = p
        /\ calls[n].op = "doc_put"
        /\ calls[n].arg = DocKey(doc)
        /\ ~calls[n].ok

\* where run() stands while it fetches a document
DocPc(doc) == IF doc = RESPONSE_JSON THEN "fetch_data" ELSE "fetch_comments"

\* what run() holds as the result of the fetch of a document
DocData(p, doc) == IF doc = RESPONSE_JSON THEN population_data[p] ELSE comments_data[p]

\* run() of invocation p is past the fetch of a document and its store step
DocDone(p, doc) ==
    IF doc = RESPONSE_JSON
    THEN pc[p] \in {"fetch_comments", "upload_comments", "returned"}
    ELSE pc[p] = "returned"

\* the first k requests of G were all answered with a status of the forcelist
AllForcelist(G, k) ==
    \A m \in 1..k : ~G[m].ok /\ G[m].val[1] \in STATUS_FORCELIST

(***************************************************************************)
(* C11 (retry then success): a forcelist status met fewer times than the   *)
(* retry budget does not end the fetch, and when the endpoint then answers *)
(* 200 the fetch returns the payload and, the store not failing, run()     *)
(* stores it exactly once (503, 503, 200: three requests, one store).      *)
(***************************************************************************)
C11_RetryThenSuccess ==
    \A p \in Procs : \A doc \in Docs :
        LET G == DocGets(p, doc) IN
            /\ \A k \in 1..Len(G) :
                   (AllForcelist(G, k) /\ k < RETRY_TOTAL) =>
                       (k < Len(G) \/ pc[p] = DocPc(doc))
            /\ ( /\ G # <<>>
                 /\ G[Len(G)].ok
                 /\ AllForcelist(G, Len(G) - 1)
                 /\ Len(G) - 1 < RETRY_TOTAL
                 /\ DocDone(p, doc)
                 /\ ~DocPutFailed(p, doc) )
                   => /\ DocData(p, doc) = G[Len(G)].val[1]
                      /\ Cardinality(DocPutsOk(p, doc)) = 1

(***************************************************************************)
(* C12 (bounded retry), as stated: a document is requested at most 3       *)
(* times; a request is made again only after a 502, 503 or 504; any other  *)
(* failure (another error status, a network error) ends the fetch.         *)
(***************************************************************************)
C12_BoundedRetry ==
    \A p \in Procs : \A doc \in Docs :
        LET G == DocGets(p, doc) IN
            /\ Len(G) <= 3
            /\ \A k \in 1..Len(G) :
                   /\ k < Len(G) => G[k].val[1] \in STATUS_FORCELIST
                   /\ (~G[k].ok /\ G[k].val[1] \notin STATUS_FORCELIST) =>
                          (k = Len(G) /\ pc[p] # DocPc(doc))

(***************************************************************************)
(* C12 amended: a document is requested at most 4 times (the first request *)
(* and 3 retries); a request is made again only after a 502, 503 or 504, a *)
(* 429 with Retry-After, or a connection error or timeout; another error   *)
(* status ends the fetch without a re-attempt, and so does the failure of  *)
(* the fourth request.                                                     *)
(***************************************************************************)
C12_BoundedRetry_Amended ==
    \A p \in Procs : \A doc \in Docs :
        LET G == DocGets(p, doc) IN
            /\ Len(G) <= RETRY_TOTAL + 1
            /\ \A k \in 1..Len(G) :
                   /\ k < Len(G) =>
                          /\ ~G[k].ok
                          /\ G[k].val[1] \in STATUS_FORCELIST \cup {"429", "err"}
                   /\ (~G[k].ok /\ (G[k].val[1] = "404" \/ k = RETRY_TOTAL + 1)) =>
                          (k = Len(G) /\ pc[p] # DocPc(doc))

\* a fetch has used its last retry after a connection error and has given up
C12_Witness ==
    \E p \in Procs : \E doc \in Docs :
        LET G == DocGets(p, doc) IN
            /\ Len(G) = RETRY_TOTAL + 1
            /\ \E k \in 1..RETRY_TOTAL : G[k].val[1] = "err"
            /\ ~G[Len(G)].ok
            /\ DocDone(p, doc)
            /\ DocData(p, doc) = "None"

\* a put of the document, successful or not, by invocation p
DocPutCalls(p, doc) ==
    {n \in 1..Len(calls) :
        calls[n].inv = p /\ calls[n].op = "doc_put" /\ calls[n].arg = DocKey(doc)}

\* the fetch of the document by invocation p is over and its last request failed
FetchGaveUp(p, doc) ==
    LET G == DocGets(p, doc) IN
        /\ G # <<>>
        /\ ~G[Len(G)].ok
        /\ pc[p] # DocPc(doc)

(***************************************************************************)
(* C13 (graceful degradation): a fetch whose retries are exhausted or      *)
(* whose failure is not retried does not raise: it returns None, run()     *)
(* issues no put of that document and goes on (to the comments fetch after *)
(* the population fetch, to a normal return after the comments fetch).     *)
(***************************************************************************)
C13_GracefulDegradation ==
    \A p \in Procs :
        /\ exc[p] # "doc_get"
        /\ \A doc \in Docs :
               FetchGaveUp(p, doc) =>
                   /\ DocData(p, doc) = "None"
                   /\ DocPutCalls(p, doc) = {}
        /\ FetchGaveUp(p, RESPONSE_JSON) =>
               \/ pc[p] \in {"fetch_comments", "upload_comments"}
               \/ pc[p] = "returned" /\ DocGets(p, COMMENTS_JSON) # <<>>
        /\ FetchGaveUp(p, COMMENTS_JSON) =>
               pc[p] = "returned" /\ statusCode[p] = 200

\* the population fetch ran out of retries, the comments were fetched and
\* stored and the handler answered 200
C13_Witness ==
    \E p \in Procs :
        /\ FetchGaveUp(p, RESPONSE_JSON)
        /\ Len(DocGets(p, RESPONSE_JSON)) = RETRY_TOTAL + 1
        /\ DocPutsOk(p, COMMENTS_JSON) # {}
        /\ statusCode[p] = 200

\* fetching or storing the document failed in invocation p
DocFailed(p, doc) == FetchGaveUp(p, doc) \/ DocPutFailed(p, doc)

\* the other document was fetched and, when the fetch gave a payload that
\* run() stores, its put was issued
DocServed(p, doc) ==
    LET G == DocGets(p, doc) IN
        /\ G # <<>>
        /\ (G[Len(G)].ok /\ Truthy(G[Len(G)].val[1])) => DocPutCalls(p, doc) # {}

(***************************************************************************)
(* C14 (document independence): once run() is over, a failure while        *)
(* fetching or storing the population document has not kept the comments   *)
(* document from being fetched and, if fetched, stored; and the reverse.   *)
(***************************************************************************)
C14_DocumentIndependence ==
    \A p \in Procs :
        pc[p] = "returned" =>
            /\ DocFailed(p, RESPONSE_JSON) => DocServed(p, COMMENTS_JSON)
            /\ DocFailed(p, COMMENTS_JSON) => DocServed(p, RESPONSE_JSON)

\* the fetch of the document by invocation p returned a payload
FetchSucceeded(p, doc) ==
    LET G == DocGets(p, doc) IN G # <<>> /\ G[Len(G)].ok

\* the payload the fetch returned
Payload(p, doc) == LET G == DocGets(p, doc) IN G[Len(G)].val[1]

(***************************************************************************)
(* C15 (store on success): once run() is past a document whose fetch       *)
(* succeeded, whatever the payload, it has issued exactly one put, under   *)
(* the document's fixed key and with the payload as body; and it has       *)
(* issued a put of a document only if its fetch succeeded.                 *)
(***************************************************************************)
C15_StoreOnSuccess ==
    \A p \in Procs : \A doc \in Docs :
        /\ (FetchSucceeded(p, doc) /\ DocDone(p, doc)) =>
               /\ Cardinality(DocPutCalls(p, doc)) = 1
               /\ \A n \in DocPutsOk(p, doc) :
                      calls[n].val = <<JsonDumps(Payload(p, doc))>>
        /\ DocPutCalls(p, doc) # {} => FetchSucceeded(p, doc)

\* no key of the bucket that invocation p found repeats the prefix
PrefixOnlyLeading(p) ==
    \A k \in DOMAIN store_before[p] :
        StartsWith(k, S3_PREFIX) => S3_PREFIX \o StripPrefix(k) = k

\* the last entry of the listing that carries the name
LastEntry(urls, name) ==
    urls[CHOOSE n \in 1..Len(urls) :
            /\ LastSegment(urls[n]) = name
            /\ \A m \in (n + 1)..Len(urls) : LastSegment(urls[m]) # name]

\* the names that occur more than once in the listing
DuplicateNames(urls) ==
    {LastSegment(urls[n]) : n \in {k \in 1..Len(urls) :
        \E m \in 1..Len(urls) : m # k /\ LastSegment(urls[m]) = LastSegment(urls[k])}}

(***************************************************************************)
(* C16 (duplicate names, last write wins): when a sync() in which nothing  *)
(* failed has returned, the object stored under a name that the listing    *)
(* holds twice has the content of the later entry, whatever the bucket     *)
(* held before (stated for the buckets whose keys carry the prefix once,   *)
(* where the names of the store listing are the stored names).             *)
(***************************************************************************)
C16_LastWriteWins ==
    \A p \in Procs :
        (SyncJustReturned(p) /\ FailedOps(p) = {} /\ PrefixOnlyLeading(p)) =>
            \A name \in DuplicateNames(bls_urls[p]) :
                /\ S3Key(name) \in DOMAIN store
                /\ store[S3Key(name)] = remote_content[LastEntry(bls_urls[p], name)]

\* every invocation has run sync() to its return and none of its calls failed
AllSyncsReturnedClean ==
    \A p \in Procs : SyncJustReturned(p) /\ FailedOps(p) = {}

\* under every name of the listing the bucket holds the bytes the remote serves
DigestsMatch ==
    \A n \in 1..Len(remote_files) :
        LET key == S3Key(LastSegment(remote_files[n])) IN
            /\ key \in DOMAIN store
            /\ MD5(store[key]) = MD5(remote_content[remote_files[n]])

(***************************************************************************)
(* C17 (overlapping runs converge): when the runs of sync() have           *)
(* interleaved at their network calls and all have returned, nothing       *)
(* having failed, the names stored under the prefix are the names of the   *)
(* remote listing and every stored digest is that of the remote content.   *)
(***************************************************************************)
C17_OverlapConverges ==
    AllSyncsReturnedClean =>
        /\ StoredNames(store) = RemoteNames(remote_files)
        /\ DigestsMatch

\* the keys under the prefix in the bucket invocation p listed
ListedKeys(p) == {k \in DOMAIN store_before[p] : StartsWith(k, S3_PREFIX)}

(***************************************************************************)
(* C18 (prefix stripping is exact): in the file map that get_s3_file_map   *)
(* returned, every name n belongs to a listed key k with prefix + n = k,   *)
(* distinct keys have distinct names, and every delete that sync() issues  *)
(* targets a listed key.                                                   *)
(***************************************************************************)
C18_PrefixStrippingExact ==
    \A p \in Procs :
        Listed(p) =>
            /\ \A n \in 1..Len(s3_files[p]) : S3Key(s3_files[p][n][1]) \in ListedKeys(p)
            /\ Cardinality(DictKeys(s3_files[p])) = Cardinality(ListedKeys(p))
            /\ \A n \in Deletes(p) : calls[n].arg \in ListedKeys(p)

\* the calls of sync() that belong to the upload attempt of an item
AttemptOps == {"get_hash", "skip", "get_upload", "put"}

(***************************************************************************)
(* C19 (ordering barrier): when a run of sync() issues a delete, the       *)
(* upload attempt of every item of the listing is over (each has had its   *)
(* hash fetch and the for loop is exhausted), and no call of an upload     *)
(* attempt, a put in particular, follows the delete in that run.           *)
(***************************************************************************)
C19_OrderingBarrier ==
    \A p \in Procs :
        LET L == CallsOf(p) IN
            \A k \in 1..Len(L) :
                L[k].op = "delete" =>
                    /\ Cardinality({m \in 1..(k - 1) : L[m].op = "get_hash"})
                           = Len(bls_urls[p])
                    /\ i[p] = Len(bls_urls[p]) + 1
                    /\ pc[p] \notin {"loop", "download", "put"}
                    /\ \A m \in (k + 1)..Len(L) : L[m].op \notin AttemptOps

\* a run has uploaded one file, skipped or failed on another, and then deleted
C19_Witness ==
    \E p \in Procs :
        LET L == CallsOf(p) IN
            /\ Len(bls_urls[p]) = 2
            /\ \E k, m \in 1..Len(L) :
                   /\ k < m
                   /\ L[k].op = "put"
                   /\ L[m].op = "delete"
                   /\ L[m].ok

(***************************************************************************)
(* C20 (uploaded content matches the decision): the bytes of every put of  *)
(* sync() have the digest that the hash step of the item computed and      *)
(* compared with the stored digest, also when the remote content changes   *)
(* between the hash fetch and the upload fetch.                            *)
(***************************************************************************)
C20_UploadMatchesDecision ==
    \A p \in Procs :
        LET L == CallsOf(p) IN
            \A k \in 1..Len(L) :
                L[k].op = "put" =>
                    /\ k > 2
                    /\ L[k - 2].op = "get_hash"
                    /\ MD5(L[k].val[1]) = L[k - 2].val

\* the names of the items of invocation p whose hash fetch failed, or worked
HashCalls(p, ok) ==
    {n \in 1..Len(calls) : calls[n].inv = p /\ calls[n].op = "get_hash" /\ calls[n].ok = ok}
FailedHashNames(p) == {LastSegment(calls[n].arg) : n \in HashCalls(p, FALSE)}
FetchedNames(p) == {LastSegment(calls[n].arg) : n \in HashCalls(p, TRUE)}

\* the object at a key is as it was when invocation p began
KeptAt(p, key) ==
    /\ key \in DOMAIN store <=> key \in DOMAIN store_before[p]
    /\ key \in DOMAIN store => store[key] = store_before[p][key]

(***************************************************************************)
(* C21 (a failed fetch never destroys stored data), as stated: when the    *)
(* hash fetch of a remote item failed and an object of that name is        *)
(* stored, the run of sync() issues no delete and no successful put for    *)
(* its key, and the object is as it was before the run.                    *)
(***************************************************************************)
C21_FailedFetchKeepsObject ==
    \A p \in Procs :
        \A name \in FailedHashNames(p) :
            S3_PREFIX \o name \in DOMAIN store_before[p] =>
                /\ DeleteCount(p, S3_PREFIX \o name) = 0
                /\ \A n \in Puts(p) : calls[n].ok => calls[n].arg # S3_PREFIX \o name
                /\ KeptAt(p, S3_PREFIX \o name)

(***************************************************************************)
(* C21, amended: when the hash fetch of a remote item failed, the run of   *)
(* sync() issues no delete for the key of that name and no download or put *)
(* for that item; the object at that key is as it was before the run       *)
(* unless the listing holds another item of the same name whose hash fetch *)
(* worked.                                                                 *)
(***************************************************************************)
C21_FailedFetchKeepsObject_Amended ==
    \A p \in Procs :
        LET L == CallsOf(p) IN
            /\ \A k \in 1..Len(L) :
                   (L[k].op = "get_hash" /\ ~L[k].ok /\ k < Len(L))
                       => L[k + 1].op \notin {"skip", "get_upload", "put"}
            /\ \A name \in FailedHashNames(p) :
                   /\ DeleteCount(p, S3_PREFIX \o name) = 0
                   /\ name \notin FetchedNames(p) =>
                          /\ \A n \in Puts(p) : calls[n].arg # S3_PREFIX \o name
                          /\ KeptAt(p, S3_PREFIX \o name)

\* the hash fetch of a stored name failed, the run went on to delete a stale
\* object and returned
C21_Witness ==
    \E p \in Procs :
        /\ SyncJustReturned(p)
        /\ \E name \in FailedHashNames(p) \ FetchedNames(p) :
               S3_PREFIX \o name \in DOMAIN store_before[p]
        /\ \E n \in Deletes(p) : calls[n].ok

\* the keys of a bucket that lie outside the prefix of sync()
OutsideKeys(st) == {k \in DOMAIN st : ~StartsWith(k, S3_PREFIX)}

\* invocation p is in sync(), or sync() has just ended
InSyncOrJustEnded(p) ==
    \/ pc[p] \in {"list_bls", "list_s3", "loop", "download", "put", "delete", "fetch_data"}
    \/ SyncRaised(p)

(***************************************************************************)
(* C22 (scope confinement): every key that sync() puts or deletes starts   *)
(* with the prefix, and through a run of sync() the objects whose key is   *)
(* outside the prefix are the same, with the same content, as before it.   *)
(***************************************************************************)
C22_ScopeConfinement ==
    \A p \in Procs :
        /\ \A n \in Puts(p) \cup Deletes(p) : StartsWith(calls[n].arg, S3_PREFIX)
        /\ InSyncOrJustEnded(p) =>
               /\ OutsideKeys(store) = OutsideKeys(store_before[p])
               /\ \A k \in OutsideKeys(store) : store[k] = store_before[p][k]

\* a bucket with an object outside the prefix went through a run of sync()
\* that put one object and deleted another
C22_Witness ==
    \E p \in Procs :
        /\ SyncJustReturned(p)
        /\ OutsideKeys(store_before[p]) # {}
        /\ \E n \in Puts(p) : calls[n].ok
        /\ \E n \in Deletes(p) : calls[n].ok

\* the calls of DataUSASync.run()
RunOps == {"doc_get", "doc_put"}

\* invocation p has started run(): it is inside it, or a document was fetched
\* or a document call was made
RunStarted(p) ==
    \/ InRun(p)
    \/ population_data[p] # "None"
    \/ comments_data[p] # "None"
    \/ \E n \in 1..Len(calls) : calls[n].inv = p /\ calls[n].op \in RunOps

\* sync() of invocation p ran to its end without raising: both listings were
\* made, the for loop and the delete loop are exhausted, no exception left it
SyncCompleted(p) ==
    /\ Listed(p)
    /\ exc[p] \notin SyncOps
    /\ FailedOps(p) \cap {"list_bls", "list_s3", "delete"} = {}
    /\ i[p] = Len(bls_urls[p]) + 1
    /\ j[p] = Len(s3_files[p]) + 1

\* in the log of invocation p every call of sync() precedes every call of run()
SyncBeforeRun(p) ==
    LET L == CallsOf(p) IN
        \A k, m \in 1..Len(L) :
            (L[k].op \in RunOps /\ L[m].op \in SyncOps) => m < k

(***************************************************************************)
(* C23 (flow sequencing): run() is started only when sync() has returned   *)
(* normally, all calls of sync() preceding those of run(); when an         *)
(* exception left sync(), the invocation fetches and stores no document,   *)
(* and the handler has answered with statusCode 500.                       *)
(***************************************************************************)
C23_FlowSequencing ==
    \A p \in Procs :
        /\ RunStarted(p) => SyncCompleted(p) /\ SyncBeforeRun(p)
        /\ exc[p] \in SyncOps =>
               /\ ~RunStarted(p)
               /\ pc[p] = "returned"
               /\ statusCode[p] = 500

\* sync() raised at a delete after it had uploaded a file, and the handler
\* answered 500
C23_Witness ==
    \E p \in Procs :
        /\ SyncRaised(p)
        /\ exc[p] = "delete"
        /\ statusCode[p] = 500
        /\ \E n \in Puts(p) : calls[n].ok

(***************************************************************************)
(* What the model shows beside the claims: the cases in which the          *)
(* statements of C1, C2, C4, C5, C8 and C10 do hold.                       *)
(***************************************************************************)
\* C1, C10: convergence, and the wipe on an empty listing, hold for buckets
\* whose keys carry the prefix only at their start
Lemma_ConvergenceWhenPrefixOnlyLeading ==
    \A p \in Procs :
        (SyncJustReturned(p) /\ FailedOps(p) \cap ItemOps = {} /\ PrefixOnlyLeading(p))
            => StoredNames(store) = RemoteNames(remote_files)

\* C2: under SpecTwice, idempotence holds for such buckets
Lemma_IdempotenceWhenPrefixOnlyLeading ==
    \A p \in Procs \ {1} :
        ( /\ SyncReturned(p)
          /\ SyncReturned(p - 1)
          /\ FailedOps(p - 1) = {}
          /\ FailedOps(p) = {}
          /\ PrefixOnlyLeading(1) )
            => Puts(p) \cup Deletes(p) = {}

\* C4, C5, C8: a run of sync() in which no delete failed returns without
\* raising, having fetched every item and deleted every stale name once
Lemma_CompleteWhenNoDeleteFails ==
    \A p \in Procs :
        (pc[p] = "returned" /\ Listed(p) /\ "delete" \notin FailedOps(p)) =>
            /\ store = Replay(store_before[p], CallsOf(p))
            /\ AllItemsProcessed(p)
            /\ \A name \in DictKeys(s3_files[p]) :
                   DeleteCount(p, S3Key(name)) = (IF name \in StaleNames(p) THEN 1 ELSE 0)
            /\ ~SyncRaised(p)

\* C4: no name ever receives a second delete, no listed name receives any
Lemma_NoExtraDelete ==
    \A p \in Procs :
        \A name \in DictKeys(s3_files[p]) :
            DeleteCount(p, S3Key(name)) <= (IF name \in StaleNames(p) THEN 1 ELSE 0)

\* C11: the same holds of every payload that is not empty; 503, 503, 200
\* with a non-empty body gives three requests and one store
Lemma_RetryThenSuccessWhenNotEmpty ==
    \A p \in Procs : \A doc \in Docs :
        LET G == DocGets(p, doc) IN
            ( /\ G # <<>>
              /\ G[Len(G)].ok
              /\ Truthy(G[Len(G)].val[1])
              /\ AllForcelist(G, Len(G) - 1)
              /\ Len(G) - 1 < RETRY_TOTAL
              /\ DocDone(p, doc)
              /\ ~DocPutFailed(p, doc) )
                => /\ DocData(p, doc) = G[Len(G)].val[1]
                   /\ Cardinality(DocPutsOk(p, doc)) = 1
                   /\ \A n \in DocPutsOk(p, doc) :
                          calls[n].val = <<JsonDumps(G[Len(G)].val[1])>>


\* C14: a failed fetch of the population document never keeps the comments
\* document from being fetched and stored; only its failed put does
Lemma_IndependentWhenFetchFails ==
    \A p \in Procs :
        (pc[p] = "returned" /\ ~DocPutFailed(p, RESPONSE_JSON)) =>
            DocServed(p, COMMENTS_JSON)

\* C15: every payload that is not empty gets its one put, with the payload
\* as body, and a put is skipped only after a failed fetch or an empty payload
Lemma_StoreOnSuccessWhenNotEmpty ==
    \A p \in Procs : \A doc \in Docs :
        /\ (FetchSucceeded(p, doc) /\ DocDone(p, doc) /\ Truthy(Payload(p, doc))) =>
               /\ Cardinality(DocPutCalls(p, doc)) = 1
               /\ \A n \in DocPutsOk(p, doc) :
                      calls[n].val = <<JsonDumps(Payload(p, doc))>>
        /\ (FetchSucceeded(p, doc) /\ DocDone(p, doc) /\ ~Truthy(Payload(p, doc))) =>
               DocPutCalls(p, doc) = {}
        /\ DocPutCalls(p, doc) # {} => FetchSucceeded(p, doc)

\* C16: the later entry wins unless the store listing already showed its digest
Lemma_LastWriteWinsUnlessListed ==
    \A p \in Procs :
        (SyncJustReturned(p) /\ FailedOps(p) = {}) =>
            \A name \in DuplicateNames(bls_urls[p]) :
                \/ /\ name \in DictKeys(s3_files[p])
                   /\ DictGet(s3_files[p], name)
                          = MD5(remote_content[LastEntry(bls_urls[p], name)])
                \/ /\ S3Key(name) \in DOMAIN store
                   /\ store[S3Key(name)] = remote_content[LastEntry(bls_urls[p], name)]

\* C17: overlapping runs converge on buckets whose keys carry the prefix once
Lemma_OverlapConvergesWhenPrefixOnlyLeading ==
    (AllSyncsReturnedClean /\ PrefixOnlyLeading(1)) =>
        /\ StoredNames(store) = RemoteNames(remote_files)
        /\ DigestsMatch


\* C18: the stripping is exact for the keys that carry the prefix once
Lemma_StrippingExactWhenPrefixOnlyLeading ==
    \A p \in Procs :
        (Listed(p) /\ PrefixOnlyLeading(p)) =>
            /\ \A n \in 1..Len(s3_files[p]) : S3Key(s3_files[p][n][1]) \in ListedKeys(p)
            /\ Cardinality(DictKeys(s3_files[p])) = Cardinality(ListedKeys(p))
            /\ \A n \in Deletes(p) : calls[n].arg \in ListedKeys(p)

\* C20: under Spec, where the remote content stays as it is during the run,
\* every put carries the digest of the hash step
Lemma_UploadMatchesWhenRemoteFixed ==
    \A p \in Procs :
        pc[p] = "put" => MD5(r_upload[p]) = file_hash[p]

\* C23: under SpecMain, main() keeps the same order; an exception of sync()
\* leaves main(), which then fetches no document and returns nothing
Lemma_MainSequencing ==
    \A p \in Procs :
        /\ RunStarted(p) => SyncCompleted(p) /\ SyncBeforeRun(p)
        /\ exc[p] \in SyncOps =>
               /\ ~RunStarted(p)
               /\ pc[p] = "raised"
               /\ statusCode[p] = 0

=============================================================================
